---- MODULE Spec2Model ----
(***************************************************************************)
(* webargs.core: the Arg value contract and the Parser resolution engine   *)
(* (parse_arg, parse, target_handler, error_handler).                      *)
(*                                                                         *)
(* Python values are records [k, v]: None, a scalar n, a list or a set of  *)
(* scalars.  A set is kept as its ascending duplicate-free sequence.       *)
(***************************************************************************)
EXTENDS Integers, Sequences, FiniteSets, TLC

VARIABLES
    TARGET_MAP,      \* the class attribute Parser.TARGET_MAP
    error_callback,  \* self.error_callback of each parser
    targets,         \* self.targets of each parser
    last,            \* the call in progress: its arguments and its outcome
    registered       \* history: target name => function last handed to target_handler

vars == <<TARGET_MAP, error_callback, targets, last, registered>>

\* ---------------------------------------------------------------- bounds
\* lists fetched from a request have at most MaxLen elements
MaxLen == 1

\* ---------------------------------------------------------------- values
None == [k |-> "none", v |-> <<>>]
Scalar(n) == [k |-> "scalar", v |-> <<n>>]
List(s) == [k |-> "list", v |-> s]

RECURSIVE SortedSeq(_)
SortedSeq(S) ==
    IF S = {} THEN <<>>
    ELSE LET m == CHOOSE x \in S : \A y \in S : x <= y
         IN <<m>> \o SortedSeq(S \ {m})

\* set(seq): duplicates collapse
SetOf(s) == [k |-> "set", v |-> SortedSeq({s[i] : i \in 1..Len(s)})]

\* Python truthiness, as tested by `not value`
Truthy(x) ==
    CASE x.k = "none" -> FALSE
      [] x.k = "scalar" -> x.v[1] # 0
      [] OTHER -> Len(x.v) > 0

\* isinstance(value, list)
IsList(x) == x.k = "list"

SeqsUpTo(S, n) == UNION {[1..m -> S] : m \in 0..n}

\* the scalars a request carries: a falsy one and a truthy one
Numbers == {0, 1}
Scalars == {Scalar(n) : n \in Numbers}
Lists == {List(s) : s \in SeqsUpTo(Numbers, MaxLen)}
\* what a fetch capability may hand back
FetchValues == {None} \cup Scalars \cup Lists

\* ------------------------------------------------- user supplied callables
\* convert: "noop" is the default of Arg (identity); "conv" stands for a
\* numeric converter: it raises on 0 and on anything that is not a scalar,
\* and maps n to n + 1 otherwise.
Converters == {"noop", "conv"}
ConvertRaises(c, x) == c = "conv" /\ (x.k # "scalar" \/ x.v[1] = 0)

\* validate: "true" is the default of Arg (lambda x: True); "check" rejects
\* the scalar 1 (returns False), raises on scalars above 1, accepts the rest.
Validators == {"true", "check"}
ValidateRaises(f, y) == f = "check" /\ y.k = "scalar" /\ y.v[1] > 1
ValidateRet(f, y) == ~(f = "check" /\ y.k = "scalar" /\ y.v[1] = 1)

\* noop(x)
noop(x) == x

ConvertRet(c, x) == IF c = "noop" THEN noop(x) ELSE Scalar(x.v[1] + 1)

\* ------------------------------------------------------------------- Arg
\* Arg.__init__ for the argument combinations that construct: multiple is
\* one of "none", "list", "set" and required, allow_missing are not both set.
Arg(convert, default, required, validate, multiple, allow_missing, target) ==
    [convert |-> convert,
     validate |-> validate,
     multiple |-> multiple,
     default |-> IF multiple # "none" /\ default = None
                 THEN (IF multiple = "list" THEN List(<<>>) ELSE SetOf(<<>>))
                 ELSE default,
     required |-> required,
     allow_missing |-> allow_missing,
     target |-> target]

\* Arg.__init__ raises WebargsValueError for these
ArgInitRaises(required, multiple, allow_missing) ==
    \/ multiple \notin {"none", "list", "set"}
    \/ required /\ allow_missing

\* Arg._validate: [tag, ret, cause, calls]; calls logs the invocations of
\* convert and validate in order.
Arg_validate(argobj, value) ==
    IF ConvertRaises(argobj.convert, value)
    THEN [tag |-> "InternalConversionError", ret |-> None, cause |-> "convert_exc",
          calls |-> <<[fn |-> "convert", on |-> value]>>]
    ELSE LET ret == ConvertRet(argobj.convert, value)
             calls == <<[fn |-> "convert", on |-> value],
                        [fn |-> "validate", on |-> ret]>>
         IN IF ValidateRaises(argobj.validate, ret)
            THEN [tag |-> "InternalValidationError", ret |-> None,
                  cause |-> "validate_exc", calls |-> calls]
            ELSE IF ~ValidateRet(argobj.validate, ret)
            THEN [tag |-> "InternalInvalidArg", ret |-> None, cause |-> "",
                  calls |-> calls]
            ELSE [tag |-> "ok", ret |-> ret, cause |-> "", calls |-> calls]

\* the list comprehension of Arg.validated: element i onwards, with the
\* converted elements and the calls made so far
RECURSIVE ValidateEach(_, _, _, _, _)
ValidateEach(argobj, s, i, acc, calls) ==
    IF i > Len(s)
    THEN [tag |-> "ok",
          ret |-> IF argobj.multiple = "list" THEN List(acc) ELSE SetOf(acc),
          cause |-> "", calls |-> calls]
    ELSE LET r == Arg_validate(argobj, Scalar(s[i]))
         IN IF r.tag # "ok"
            THEN [r EXCEPT !.calls = calls \o r.calls]
            ELSE ValidateEach(argobj, s, i + 1, Append(acc, r.ret.v[1]),
                              calls \o r.calls)

\* Arg.validated
validated(argobj, value) ==
    IF argobj.multiple # "none" /\ IsList(value)
    THEN ValidateEach(argobj, value.v, 1, <<>>, <<>>)
    ELSE Arg_validate(argobj, value)

\* ---------------------------------------------------------------- Parser
Parsers == {"A", "B"}

\* Parser.DEFAULT_TARGETS
DEFAULT_TARGETS == <<"querystring", "form", "json">>

\* Parser.TARGET_MAP as the class body sets it: target => method name
InitialTargetMap ==
    [t \in {"json", "querystring", "form", "headers", "cookies", "files"} |->
        "parse_" \o t]

\* functions handed to target_handler (inspect.isfunction holds of them):
\* f1 reads the query string data of the request, f2 its JSON data
Functions == {"f1", "f2"}
FunctionCall(func, req, name) ==
    IF func = "f1" THEN req["parse_querystring"][name]
    ELSE req["parse_json"][name]

\* getattr(self, func)(req, name, argobj): the adapter overrides the methods
\* the request has data for; every other parse_* is the base method, which
\* returns None
MethodCall(func, req, name) ==
    IF func \in DOMAIN req THEN req[func][name] ELSE None

\* self.TARGET_MAP: no instance attribute of that name is ever set, so the
\* lookup on any parser gives the attribute of the class
TargetMapOf(p) == TARGET_MAP

\* Parser._validated_targets: TRUE when it raises.  The raise statement
\* builds WebargsValueError(msg) with one argument where __init__ takes
\* (arg, msg), so what is raised is a TypeError.
InvalidTargets(p, tl) == {tl[i] : i \in 1..Len(tl)} \ DOMAIN TargetMapOf(p)

\* the error raised by Parser._validated_targets on a non-empty difference
ValidatedTargetsError == "TypeError"

\* Parser._get_value: [value, fetches]; fetches logs the capability invoked
get_value(p, name, argobj, req, target) ==
    IF target \in DOMAIN TargetMapOf(p)
    THEN LET func == TargetMapOf(p)[target]
         IN [value |-> IF func \in Functions
                       THEN FunctionCall(func, req, name)
                       ELSE MethodCall(func, req, name),
             fetches |-> <<[arg |-> name, target |-> target, func |-> func]>>]
    ELSE [value |-> None, fetches |-> <<>>]

\* Parser.fallback
fallback(req, name, argobj) == None

\* mutant: the except clauses for conversion and validation errors swapped
Translate_Swapped(r, name, fetches, raw) ==
    [tag |-> CASE r.tag = "InternalConversionError" -> "ValidationError"
               [] r.tag = "InternalValidationError" -> "ConversionError"
               [] r.tag = "InternalInvalidArg" -> "InvalidArg"
               [] OTHER -> "return",
     value |-> r.ret,
     arg |-> IF r.tag = "ok" THEN "" ELSE name,
     cause |-> r.cause,
     fetches |-> fetches, calls |-> r.calls, fallbacks |-> 0,
     found |-> <<raw>>]

\* the try/except around argobj.validated in parse_arg
Translate(r, name, fetches, raw) ==
    [tag |-> CASE r.tag = "InternalConversionError" -> "ConversionError"
               [] r.tag = "InternalValidationError" -> "ValidationError"
               [] r.tag = "InternalInvalidArg" -> "InvalidArg"
               [] OTHER -> "return",
     value |-> r.ret,
     arg |-> IF r.tag = "ok" THEN "" ELSE name,
     cause |-> r.cause,
     fetches |-> fetches, calls |-> r.calls, fallbacks |-> 0,
     found |-> <<raw>>]

\* parse_arg after the loop over the targets: value is what the last fetch
\* left in it
AfterScan(argobj, req, name, value, fetches) ==
    IF value = None
    THEN LET useDefault == argobj.default # None
             final == IF useDefault THEN argobj.default
                      ELSE fallback(req, name, argobj)
             fb == IF useDefault THEN 0 ELSE 1
         IN IF ~Truthy(final) /\ argobj.required
            THEN [tag |-> "MissingArg", value |-> None, arg |-> name, cause |-> "",
                  fetches |-> fetches, calls |-> <<>>, fallbacks |-> fb,
                  found |-> <<>>]
            ELSE [tag |-> "return", value |-> final, arg |-> "", cause |-> "",
                  fetches |-> fetches, calls |-> <<>>, fallbacks |-> fb,
                  found |-> <<>>]
    ELSE [tag |-> "return", value |-> value, arg |-> "", cause |-> "",
          fetches |-> fetches, calls |-> <<>>, fallbacks |-> 0, found |-> <<>>]

\* the for loop of parse_arg from target i on
RECURSIVE Scan(_, _, _, _, _, _, _, _)
Scan(p, name, argobj, req, tl, i, value, fetches) ==
    IF i > Len(tl)
    THEN AfterScan(argobj, req, name, value, fetches)
    ELSE LET g == get_value(p, name, argobj, req, tl[i])
             fs == fetches \o g.fetches
         IN IF argobj.multiple # "none"
               /\ ~(IsList(g.value) /\ Len(g.value.v) > 0)
            THEN Scan(p, name, argobj, req, tl, i + 1, g.value, fs)
            ELSE IF g.value # None
            THEN Translate(validated(argobj, g.value), name, fs, g.value)
            ELSE Scan(p, name, argobj, req, tl, i + 1, g.value, fs)

\* mutant: the loop runs over the targets in reverse order
ScanTargets_Reversed(p, name, argobj, req, tgts, fetches) ==
    LET tl == IF tgts # <<>> THEN tgts ELSE targets[p]
        rev == [i \in 1..Len(tl) |-> tl[Len(tl) + 1 - i]]
    IN IF InvalidTargets(p, tl) # {}
       THEN [tag |-> ValidatedTargetsError, value |-> None, arg |-> "", cause |-> "",
             fetches |-> fetches, calls |-> <<>>, fallbacks |-> 0, found |-> <<>>]
       ELSE Scan(p, name, argobj, req, rev, 1, None, fetches)

\* parse_arg from the for statement on
ScanTargets(p, name, argobj, req, tgts, fetches) ==
    LET tl == IF tgts # <<>> THEN tgts ELSE targets[p]
    IN IF InvalidTargets(p, tl) # {}
       THEN [tag |-> ValidatedTargetsError, value |-> None, arg |-> "", cause |-> "",
             fetches |-> fetches, calls |-> <<>>, fallbacks |-> 0, found |-> <<>>]
       ELSE Scan(p, name, argobj, req, tl, 1, None, fetches)

\* Parser.parse_arg; targets=None is <<>>
parse_arg(p, name, argobj, req, tgts) ==
    IF argobj.target # ""
    THEN LET g == get_value(p, name, argobj, req, argobj.target)
         IN IF g.value # None
            THEN Translate(validated(argobj, g.value), name, g.fetches, g.value)
            ELSE ScanTargets(p, name, argobj, req, tgts, g.fetches)
    ELSE ScanTargets(p, name, argobj, req, tgts, <<>>)

\* callbacks handed to error_handler: "log_cb" returns normally, "raise_cb"
\* raises its own error (the CustomError of the error_handler docstring)
Callbacks == {"log_cb", "raise_cb"}

\* mutant: the except clause hands the error over and then returns what was
\* parsed so far
HandleError_ReturnsPartial(p, error, parsed, fetches, calls, resolved) ==
    [tag |-> "return", ret |-> parsed, error |-> [tag |-> "", arg |-> ""],
     handled |-> <<[handler |-> IF error_callback[p] = "none" THEN "handle_error"
                                ELSE error_callback[p],
                    error |-> error]>>,
     parsed |-> parsed, fetches |-> fetches, calls |-> calls,
     resolved |-> resolved]

\* the except clause of parse: the registered callback, else handle_error
HandleError(p, error, parsed, fetches, calls, resolved) ==
    LET cb == error_callback[p]
    IN [tag |-> IF cb = "log_cb" THEN "returnNone" ELSE "raise",
        ret |-> <<>>,
        error |-> IF cb = "log_cb" THEN [tag |-> "", arg |-> ""]
                  ELSE IF cb = "raise_cb" THEN [tag |-> "CustomError", arg |-> error.arg]
                  ELSE error,
        handled |-> <<[handler |-> IF cb = "none" THEN "handle_error" ELSE cb,
                       error |-> error]>>,
        parsed |-> parsed, fetches |-> fetches, calls |-> calls,
        resolved |-> resolved]

\* mutant: a missing value is stored as None instead of skipped
Collect_KeepsNone(parsed, argname, argobj, parsed_value) ==
    parsed @@ (argname :> parsed_value)

\* the body of the loop of parse after parse_arg returned: skip missing values
Collect(parsed, argname, argobj, parsed_value) ==
    IF parsed_value = None /\ argobj.allow_missing
    THEN parsed
    ELSE parsed @@ (argname :> parsed_value)

\* the for loop of parse from argument i on; argmap is the sequence of
\* (name, Arg) pairs in the order the dictionary yields them
RECURSIVE ParseLoop(_, _, _, _, _, _, _, _, _)
ParseLoop(p, argmap, req, tgts, i, parsed, fetches, calls, resolved) ==
    IF i > Len(argmap)
    THEN [tag |-> "return", ret |-> parsed, error |-> [tag |-> "", arg |-> ""],
          handled |-> <<>>, parsed |-> parsed, fetches |-> fetches,
          calls |-> calls, resolved |-> resolved]
    ELSE LET argname == argmap[i].name
             argobj == argmap[i].arg
             r == parse_arg(p, argname, argobj, req, tgts)
             fs == fetches \o r.fetches
             cs == calls \o [j \in 1..Len(r.calls) |->
                                [arg |-> argname, fn |-> r.calls[j].fn]]
             rs == Append(resolved, argname)
         IN IF r.tag # "return"
            THEN HandleError(p, [tag |-> r.tag, arg |-> r.arg], parsed, fs, cs, rs)
            ELSE ParseLoop(p, argmap, req, tgts, i + 1,
                           Collect(parsed, argname, argobj, r.value), fs, cs, rs)

\* Parser.parse; targets=None is <<>>
parse(p, argmap, req, tgts) ==
    ParseLoop(p, argmap, req, IF tgts # <<>> THEN tgts ELSE targets[p],
              1, <<>>, <<>>, <<>>, <<>>)

\* mutant: a name that is registered already keeps its function (setdefault)
target_handler_KeepsFirst(tm, name, func) ==
    [t \in DOMAIN tm \cup {name} |-> IF t \in DOMAIN tm THEN tm[t] ELSE func]

\* the decorator of Parser.target_handler applied to func
target_handler(tm, name, func) ==
    [t \in DOMAIN tm \cup {name} |-> IF t = name THEN func ELSE tm[t]]

\* ---------------------------------------------------------------- inputs
Multiples == {"none", "list", "set"}
Defaults == {None, Scalar(1)}
\* Arg(target=...): unset, or the JSON body
PinnedTargets == {"", "json"}

ArgSpecs ==
    {Arg(a[1], a[2], a[3], a[4], a[5], a[6], a[7]) :
        a \in {b \in Converters \X Defaults \X BOOLEAN \X Validators \X Multiples
                     \X BOOLEAN \X PinnedTargets : ~ArgInitRaises(b[3], b[5], b[6])}}

\* the parts of a request the adapter reads
Sources == {"parse_querystring", "parse_json"}
Requests(names, values) == [Sources -> [names -> values]]

\* targets handed to parse_arg; <<>> is targets=None
TargetLists ==
    {<<>>, <<"json", "querystring">>, <<"custom", "querystring">>,
     <<"querystring", "bogus">>}

\* the parsers the error_handler decorator is applied on
HandledParsers == {"A"}

\* names a target_handler registration uses
CustomTargets == {"custom"}

\* the specs handed to parse_arg on its own: allow_missing is read by parse only
SingleSpecs == {s \in ArgSpecs : ~s.allow_missing}

\* argmaps handed to parse: two scalar arguments without default, converter
\* or pinned target
ArgNames == <<"a", "b">>
BatchSpecs ==
    {s \in ArgSpecs : /\ s.multiple = "none" /\ s.target = ""
                      /\ s.convert = "noop" /\ s.default = None}
ArgMaps == [1..Len(ArgNames) -> BatchSpecs]
ArgMapOf(f) == [i \in DOMAIN f |-> [name |-> ArgNames[i], arg |-> f[i]]]
NamesOf(argmap) == {argmap[i].name : i \in DOMAIN argmap}

\* --------------------------------------------------------------- machine
\* two parsers built by Parser(): targets=None, error_handler=None.  last is
\* the call in progress with its arguments and outcome; the parser keeps
\* nothing of a call once it has returned.
Init ==
    /\ TARGET_MAP = InitialTargetMap
    /\ error_callback = [p \in Parsers |-> "none"]
    /\ targets = [p \in Parsers |-> DEFAULT_TARGETS]
    /\ last = [op |-> "idle"]
    /\ registered = <<>>

Idle == last.op = "idle"

TargetHandler(p) ==
    /\ Idle
    /\ \E name \in CustomTargets, func \in Functions :
        /\ TARGET_MAP' = target_handler(TargetMapOf(p), name, func)
        /\ last' = [op |-> "target_handler", parser |-> p, name |-> name,
                    func |-> func, before |-> TARGET_MAP]
        /\ registered' = [t \in DOMAIN registered \cup {name} |->
                              IF t = name THEN func ELSE registered[t]]
        /\ UNCHANGED <<error_callback, targets>>

ErrorHandler(p) ==
    /\ Idle
    /\ \E func \in Callbacks :
        /\ error_callback' = [error_callback EXCEPT ![p] = func]
        /\ last' = [op |-> "error_handler", parser |-> p, func |-> func]
        /\ UNCHANGED <<TARGET_MAP, targets, registered>>

ParseArg(p) ==
    /\ Idle
    /\ \E argobj \in SingleSpecs, req \in Requests({"a"}, FetchValues),
          tgts \in TargetLists :
        /\ last' = [op |-> "parse_arg", parser |-> p, name |-> "a",
                    argobj |-> argobj, req |-> req, targets |-> tgts,
                    result |-> parse_arg(p, "a", argobj, req, tgts)]
        /\ UNCHANGED <<TARGET_MAP, error_callback, targets, registered>>

Parse(p) ==
    /\ Idle
    /\ \E f \in ArgMaps, tgts \in {<<>>, <<"custom">>} :
        \E req \in Requests(NamesOf(ArgMapOf(f)), {None} \cup Scalars) :
            /\ last' = [op |-> "parse", parser |-> p, argmap |-> ArgMapOf(f),
                        req |-> req, targets |-> tgts,
                        result |-> parse(p, ArgMapOf(f), req, tgts)]
            /\ UNCHANGED <<TARGET_MAP, error_callback, targets, registered>>

\* the call returns to its caller
Return ==
    /\ ~Idle
    /\ last' = [op |-> "idle"]
    /\ UNCHANGED <<TARGET_MAP, error_callback, targets, registered>>

Next ==
    \/ \E p \in Parsers :
        \/ TargetHandler(p)
        \/ ParseArg(p)
        \/ Parse(p)
    \/ \E p \in HandledParsers : ErrorHandler(p)
    \/ Return

Spec == Init /\ [][Next]_vars

\* ---------------------------------------------------------------- claims
IsParseArg == last.op = "parse_arg"
IsParse == last.op = "parse"

\* the target list a call scans: targets or self.targets
Requested == IF last.targets # <<>> THEN last.targets ELSE targets[last.parser]

\* what the capability behind the i-th requested target yields for the argument
RawAt(i) ==
    get_value(last.parser, last.name, last.argobj, last.req, Requested[i]).value

FetchedTargets(fetches) == [i \in 1..Len(fetches) |-> fetches[i].target]

Min(S) == CHOOSE x \in S : \A y \in S : x <= y

\* a value passes conversion and validation
Passes(argobj, e) ==
    /\ ~ConvertRaises(argobj.convert, e)
    /\ ~ValidateRaises(argobj.validate, ConvertRet(argobj.convert, e))
    /\ ValidateRet(argobj.validate, ConvertRet(argobj.convert, e))

\* C1: without multiplicity and pinned target, and with every requested name
\* registered, parse_arg fetches the targets in the given order up to and
\* including the first whose fetch is non-null, fetches none after it, and
\* its outcome is the conversion and validation of that value: the converted
\* value when it passes.
C1_FirstTargetWins ==
    (/\ IsParseArg
     /\ last.argobj.multiple = "none"
     /\ last.argobj.target = ""
     /\ InvalidTargets(last.parser, Requested) = {})
    => LET hits == {i \in 1..Len(Requested) : RawAt(i) # None}
           res == last.result
       IN IF hits = {}
          THEN FetchedTargets(res.fetches) = Requested /\ res.found = <<>>
          ELSE LET k == Min(hits)
               IN /\ FetchedTargets(res.fetches) = SubSeq(Requested, 1, k)
                  /\ res.found = <<RawAt(k)>>
                  /\ res.tag \in {"return", "ConversionError", "ValidationError",
                                  "InvalidArg"}
                  /\ (res.tag = "return") = Passes(last.argobj, RawAt(k))
                  /\ res.tag = "return"
                        => res.value = ConvertRet(last.argobj.convert, RawAt(k))

\* C1 witness: the name is in the query string and in the JSON body with
\* different values, the default targets put querystring first, and the
\* query string value is returned after a single fetch.
C1_Witness ==
    /\ IsParseArg
    /\ last.argobj.multiple = "none" /\ last.argobj.target = ""
    /\ last.argobj.convert = "conv"
    /\ last.targets = <<>>
    /\ last.req["parse_querystring"]["a"] = Scalar(1)
    /\ last.req["parse_json"]["a"] = List(<<0>>)
    /\ last.result.tag = "return"
    /\ last.result.value = Scalar(2)
    /\ FetchedTargets(last.result.fetches) = <<"querystring">>

\* the index of the argument whose parse_arg fails first, 0 when none does
FirstFailure ==
    LET bad == {i \in DOMAIN last.argmap :
                  parse_arg(last.parser, last.argmap[i].name, last.argmap[i].arg,
                            last.req, Requested).tag # "return"}
    IN IF bad = {} THEN 0 ELSE Min(bad)

\* C2: when parse_arg fails for an argument of parse, no later argument is
\* resolved (nothing is fetched, converted or validated for it), the error
\* goes exactly once to the error callback when one is registered and
\* otherwise to handle_error, which re-raises it, and the partly built
\* mapping is not returned.
C2_FailureAborts ==
    (IsParse /\ FirstFailure # 0)
    => LET k == FirstFailure
           res == last.result
           tried == {last.argmap[i].name : i \in 1..k}
           r == parse_arg(last.parser, last.argmap[k].name, last.argmap[k].arg,
                          last.req, Requested)
           cb == error_callback[last.parser]
       IN /\ res.resolved = [i \in 1..k |-> last.argmap[i].name]
          /\ \A j \in 1..Len(res.fetches) : res.fetches[j].arg \in tried
          /\ \A j \in 1..Len(res.calls) : res.calls[j].arg \in tried
          /\ Len(res.handled) = 1
          /\ res.handled[1].error = [tag |-> r.tag, arg |-> r.arg]
          /\ res.handled[1].handler = IF cb = "none" THEN "handle_error" ELSE cb
          /\ cb = "none" => res.tag = "raise" /\ res.error = res.handled[1].error
          /\ res.tag # "return"
          /\ res.ret = <<>>

\* C2 witness: the first argument is resolved and collected, the second is
\* required and missing, and a registered callback takes the error.
C2_Witness ==
    /\ IsParse
    /\ FirstFailure = 2
    /\ last.result.parsed = ("a" :> Scalar(0))
    /\ error_callback[last.parser] = "log_cb"
    /\ last.result.handled[1].error = [tag |-> "MissingArg", arg |-> "b"]
    /\ last.result.tag = "returnNone"

\* C5: in the mapping a successful parse returns, a declared name is absent
\* exactly when its parse_arg result is None and its Arg has allow_missing;
\* every other declared name is bound to its parse_arg result, and no other
\* key exists.
C5_MappingKeys ==
    (IsParse /\ last.result.tag = "return")
    => LET ret == last.result.ret
       IN /\ DOMAIN ret \subseteq NamesOf(last.argmap)
          /\ \A i \in DOMAIN last.argmap :
                LET n == last.argmap[i].name
                    a == last.argmap[i].arg
                    r == parse_arg(last.parser, n, a, last.req, Requested)
                IN /\ n \notin DOMAIN ret <=> (r.value = None /\ a.allow_missing)
                   /\ n \in DOMAIN ret => ret[n] = r.value

\* C5 witness: both arguments resolve to None; the one with allow_missing is
\* left out, the other is present and bound to None.
C5_Witness ==
    /\ IsParse
    /\ last.result.tag = "return"
    /\ last.argmap[1].arg.allow_missing
    /\ DOMAIN last.result.ret = {"b"}
    /\ last.result.ret["b"] = None

\* the values conversion and validation are applied to for a found value
ElementsOf(argobj, raw) ==
    IF argobj.multiple # "none" /\ IsList(raw)
    THEN [i \in 1..Len(raw.v) |-> Scalar(raw.v[i])]
    ELSE <<raw>>

C9_Registration ==
    /\ (IsParseArg \/ IsParse) =>
          LET res == last.result
              names == {Requested[i] : i \in 1..Len(Requested)}
          IN /\ names \subseteq DOMAIN registered \cup DOMAIN InitialTargetMap
                  => IF IsParseArg
                     THEN res.tag # ValidatedTargetsError
                     ELSE \A j \in 1..Len(res.handled) :
                             res.handled[j].error.tag # ValidatedTargetsError
             /\ \A j \in 1..Len(res.fetches) :
                   res.fetches[j].target \in DOMAIN registered
                      => res.fetches[j].func = registered[res.fetches[j].target]
             /\ (Requested[1] \in DOMAIN registered /\ IsParseArg
                 /\ last.argobj.target = "")
                   => /\ Len(res.fetches) >= 1
                      /\ res.fetches[1].target = Requested[1]
    /\ last.op = "target_handler" =>
          /\ TARGET_MAP[last.name] = last.func
          /\ \A t \in DOMAIN last.before \ {last.name} :
                t \in DOMAIN TARGET_MAP /\ TARGET_MAP[t] = last.before[t]

\* C9 witness: f1 was registered under "custom" and then f2; a parse_arg
\* call requesting "custom" fetches through f2 and returns what it yields.
C9_Witness ==
    /\ IsParseArg
    /\ "custom" \in DOMAIN registered /\ registered["custom"] = "f2"
    /\ last.targets = <<"custom", "querystring">>
    /\ last.argobj.target = "" /\ last.argobj.multiple = "none"
    /\ last.req["parse_querystring"]["a"] = Scalar(0)
    /\ last.req["parse_json"]["a"] = Scalar(1)
    /\ last.result.fetches = <<[arg |-> "a", target |-> "custom", func |-> "f2"]>>
    /\ last.result.tag = "return"
    /\ last.result.value = ConvertRet(last.argobj.convert, Scalar(1))

\* C3 (as claimed): with required=True, parse_arg never returns a falsy
\* final value reached because no target yielded a usable value; it raises
\* MissingArg with the argument name.
C3_RequiredNeverFalsy ==
    (/\ IsParseArg
     /\ last.argobj.required
     /\ last.result.found = <<>>
     /\ last.result.tag # ValidatedTargetsError)
    => IF last.result.tag = "return"
       THEN Truthy(last.result.value)
       ELSE last.result.tag = "MissingArg" /\ last.result.arg = last.name

\* C4 (as claimed): a requested target list with an unregistered name makes
\* parse_arg fail with WebargsValueError before any fetch, pinned target or
\* not.
C4_InvalidTargetsFailFirst ==
    (IsParseArg /\ InvalidTargets(last.parser, Requested) # {})
    => /\ last.result.tag = "WebargsValueError"
       /\ last.result.fetches = <<>>

\* C7 (as claimed): with a pinned target, parse_arg fetches from that target
\* only and exactly once, whatever the fetch returns.
C7_PinnedOnly ==
    (IsParseArg /\ last.argobj.target # "")
    => FetchedTargets(last.result.fetches) = <<last.argobj.target>>

\* C8 (as claimed): when no target yields a usable value the final value is
\* the default if it is not None and the result of fallback otherwise;
\* fallback is invoked in the second case only, and a raw fetched value
\* that was treated as not found is never the result.
C8_DefaultThenFallback ==
    (/\ IsParseArg
     /\ last.result.found = <<>>
     /\ last.result.tag \in {"return", "MissingArg"})
    => LET res == last.result
           a == last.argobj
       IN IF a.default # None
          THEN res.fallbacks = 0 /\ (res.tag = "return" => res.value = a.default)
          ELSE /\ res.fallbacks = 1
               /\ res.tag = "return" => res.value = fallback(last.req, last.name, a)

\* C10 (as claimed): a registration through one parser leaves the target
\* map every other parser sees, names and functions, as it was.
C10_RegistrationIsLocal ==
    last.op = "target_handler"
    => \A q \in Parsers \ {last.parser} : TargetMapOf(q) = last.before

====
